---------------------------- MODULE Spec2Model ----------------------------
(***************************************************************************)
(* monkey-lang: the Pratt expression parser (src/parser/expression) and    *)
(* the tree-walking evaluator (src/evaluator), as pure functions applied   *)
(* by the actions of small state machines:                                 *)
(*   Spec            tokens -> parseStatementExpression ->                 *)
(*                   evaluateExpression                                    *)
(*   SpecEval        (expression, env) -> evaluateExpression               *)
(*   SpecRun         the statements of a program, one after the other      *)
(*   SpecParameters  (tokens, cursor) -> parseFunctionParameters           *)
(*   SpecParse       parseExpression(tokens, cursor, precedence), its      *)
(*                   infix loop one iteration at a time                    *)
(* store is what evaluation can write (the Environments and the env fields *)
(* written onto callees); before is the store before the last step.        *)
(* Cursors are 0-based as in the source; TLA+ sequences are 1-based, so    *)
(* tokens[i] of the source is TokenAt(tokens, i) here.                     *)
(***************************************************************************)
EXTENDS Integers, Sequences, FiniteSets, TLC

VARIABLES tokens, source, pc, parseResult, errors, expression, env, object,
          store, before, program, ip, startCursor, minPrecedence, cursors, reads

vars == <<tokens, source, pc, parseResult, errors, expression, env, object,
          store, before, program, ip, startCursor, minPrecedence, cursors, reads>>

\* the arguments and the trace of a call of the parser: the cursor and the
\* precedence it is called with (startCursor, minPrecedence), the cursor after
\* the prefix expression and after each iteration of parseExpression's loop
\* (cursors), the indices i of the tokens[i] that parseFunctionParameters has
\* read (reads)
parserVars == <<startCursor, minPrecedence, cursors, reads>>

(***************************************************************************)
(* Bounds of the model.                                                    *)
(***************************************************************************)
\* operands of a parenthesis-free input: a op b op c
MaxOperands == 3
\* infix operators of a printed (parenthesised) input expression
MaxOps == 3
\* tokens before the EOF terminator of an arbitrary (possibly malformed) input
MaxTokens == 4
\* integer literals of the evaluator's inputs are 0 .. MaxInt
MaxInt == 7
\* elements of an array literal and arguments of a call
MaxElements == 2
\* the integers of the programs are 0 .. MaxArg
MaxArg == 3

(***************************************************************************)
(* JavaScript values.  A value carries its typeof tag t.  A number is the  *)
(* exact rational <<n, d>> (d > 0, lowest terms); d = 0 stands for         *)
(* Infinity <<1,0>>, -Infinity <<-1,0>> and NaN <<0,0>>.  Rounding and the *)
(* sign of zero are not modelled.  A string is a sequence of characters.   *)
(***************************************************************************)
Undefined == [t |-> "undefined"]

Abs(i) == IF i < 0 THEN -i ELSE i

Sign(i) == IF i < 0 THEN -1 ELSE IF i > 0 THEN 1 ELSE 0

RECURSIVE Gcd(_, _)
Gcd(a, b) == IF b = 0 THEN a ELSE Gcd(b, a % b)

Norm(n, d) ==
  IF d = 0 THEN <<Sign(n), 0>>
  ELSE LET g == Gcd(Abs(n), Abs(d))
       IN  <<(Sign(d) * n) \div g, Abs(d) \div g>>

Num(n, d) == [t |-> "number", v |-> Norm(n, d)]

IntNum(i) == Num(i, 1)

Bool(b) == [t |-> "boolean", v |-> b]

Str(s) == [t |-> "string", v |-> s]

IsNaN(x) == x.v = <<0, 0>>

IsFinite(x) == x.v[2] # 0

IsIntegral(x) == x.t = "number" /\ x.v[2] = 1

TypeOf(x) == x.t

\* ToBoolean: 0, NaN, "", false and undefined are falsy; every object is truthy
Truthy(x) ==
  CASE x.t = "number" -> x.v[1] # 0
    [] x.t = "boolean" -> x.v
    [] x.t = "string" -> Len(x.v) > 0
    [] x.t = "undefined" -> FALSE
    [] OTHER -> TRUE

NumNeg(a) == Num(-a.v[1], a.v[2])

NumAdd(a, b) ==
  IF IsFinite(a) /\ IsFinite(b)
  THEN Num(a.v[1] * b.v[2] + b.v[1] * a.v[2], a.v[2] * b.v[2])
  ELSE IF IsNaN(a) \/ IsNaN(b) THEN Num(0, 0)
  ELSE IF IsFinite(b) THEN a
  ELSE IF IsFinite(a) THEN b
  ELSE IF a.v = b.v THEN a ELSE Num(0, 0)

NumSub(a, b) == NumAdd(a, NumNeg(b))

NumMul(a, b) == Num(a.v[1] * b.v[1], a.v[2] * b.v[2])

NumDiv(a, b) ==
  IF IsFinite(a) \/ ~IsFinite(b)
  THEN Num(a.v[1] * b.v[2], a.v[2] * b.v[1])
  ELSE Num(a.v[1] * (IF b.v[1] < 0 THEN -1 ELSE 1), 0)

NumLess(a, b) ==
  IF IsNaN(a) \/ IsNaN(b) THEN FALSE
  ELSE IF ~IsFinite(a) /\ ~IsFinite(b) THEN a.v[1] < b.v[1]
  ELSE a.v[1] * b.v[2] < b.v[1] * a.v[2]

NumEq(a, b) == ~IsNaN(a) /\ ~IsNaN(b) /\ a.v = b.v

(***************************************************************************)
(* Tokens: a kind and a literal (a sequence of characters).                *)
(***************************************************************************)
Token(kind, literal) == [kind |-> kind, literal |-> literal]

Digits == <<"0", "1", "2", "3", "4", "5", "6", "7", "8", "9">>

DigitValue(c) == (CHOOSE i \in 1..10 : Digits[i] = c) - 1

IsDigit(c) == \E i \in 1..10 : Digits[i] = c

\* parseInt(literal, 10): the value of the leading digits, NaN when there are none
RECURSIVE ParseIntFrom(_, _, _)
ParseIntFrom(literal, i, acc) ==
  IF i <= Len(literal) /\ IsDigit(literal[i])
  THEN ParseIntFrom(literal, i + 1, acc * 10 + DigitValue(literal[i]))
  ELSE acc

ParseInt(literal) ==
  IF Len(literal) > 0 /\ IsDigit(literal[1])
  THEN IntNum(ParseIntFrom(literal, 1, 0))
  ELSE Num(0, 0)

\* the decimal literal the lexer reads for the integer i >= 0
RECURSIVE IntLiteral(_)
IntLiteral(i) ==
  IF i < 10 THEN <<Digits[i + 1]>>
  ELSE IntLiteral(i \div 10) \o <<Digits[(i % 10) + 1]>>

\* tokens[i] is defined
Defined(toks, i) == i >= 0 /\ i < Len(toks)

TokenAt(toks, i) == toks[i + 1]

Precedence ==
  [Lowest |-> 0, Equals |-> 1, LessGreater |-> 2, Sum |-> 3,
   Product |-> 4, Prefix |-> 5, Call |-> 6]

OperatorPrecedences ==
  [Equal |-> Precedence.Equals, NotEqual |-> Precedence.Equals,
   LessThan |-> Precedence.LessGreater, GreaterThan |-> Precedence.LessGreater,
   Plus |-> Precedence.Sum, Minus |-> Precedence.Sum,
   Asterisk |-> Precedence.Product, Slash |-> Precedence.Product,
   LeftParenthesis |-> Precedence.Call, LeftBracket |-> Precedence.Call]

(***************************************************************************)
(* The expression parser, src/parser/expression/helpers.ts.  A call that   *)
(* dereferences an undefined token (a TypeError) yields Thrown, which      *)
(* every caller passes on.  The inputs hold no if and no fn token          *)
(* (parseBlockStatement is outside this module), so the ParsingFunctions   *)
(* entries 16 and 20 are never selected.                                   *)
(***************************************************************************)
Thrown == [thrown |-> "TypeError"]

IsThrown(r) == "thrown" \in DOMAIN r

Has(e, field) == field \in DOMAIN e

createExpression(toks) == [tokens |-> toks]

\* determineOperatorPrecedence(tokens[i])
determineOperatorPrecedence(toks, i) ==
  IF Defined(toks, i) /\ TokenAt(toks, i).kind \in DOMAIN OperatorPrecedences
  THEN OperatorPrecedences[TokenAt(toks, i).kind]
  ELSE Precedence.Lowest

parseExpressionValue(token) ==
  CASE token.kind = "Int" -> ParseInt(token.literal)
    [] token.kind \in {"True", "False"} -> Bool(token.kind = "True")
    [] OTHER -> Str(token.literal)

\* parseValueExpression that returns the cursor it was given
parseValueExpressionInPlace(toks, cursor) ==
  [expression |-> [tokens |-> <<TokenAt(toks, cursor)>>,
                   value |-> parseExpressionValue(TokenAt(toks, cursor))],
   cursor |-> cursor,
   nextPrecedence |-> determineOperatorPrecedence(toks, cursor + 1)]

parseValueExpression(toks, cursor) ==
  [expression |-> [tokens |-> <<TokenAt(toks, cursor)>>,
                   value |-> parseExpressionValue(TokenAt(toks, cursor))],
   cursor |-> cursor + 1,
   nextPrecedence |-> determineOperatorPrecedence(toks, cursor + 1)]

LoopTestNotStrict(toks, cursor, precedence, nextPrecedence) ==
  cursor < Len(toks) /\ precedence <= nextPrecedence

\* the test of parseExpression's while loop
LoopTest(toks, cursor, precedence, nextPrecedence) ==
  cursor < Len(toks) /\ precedence < nextPrecedence

\* the while loop of parseGroupedExpression: the number of ')' from cursor on
RECURSIVE SkipRightParentheses(_, _, _)
SkipRightParentheses(toks, cursor, index) ==
  IF Defined(toks, cursor + index)
     /\ TokenAt(toks, cursor + index).kind = "RightParenthesis"
  THEN SkipRightParentheses(toks, cursor, index + 1)
  ELSE index

\* a test of line 113 that leaves out only the separators
IsParameterNotComma(token) == token.kind # "Comma"

\* the test of line 113: the token is pushed onto parameters
IsParameter(token) == token.kind = "Identifier"

\* the while loop of parseFunctionParameters, entered with currentToken =
\* tokens[index] already read; each iteration ends by reading tokens[index + 1]
\* with no test of index + 1 against tokens.length (an index that is not
\* defined reads as undefined).  read is the set of indices read so far.
RECURSIVE ParametersLoop(_, _, _, _, _)
ParametersLoop(toks, cursor, index, parameters, read) ==
  IF index < Len(toks) /\ TokenAt(toks, index).kind # "RightParenthesis"
  THEN ParametersLoop(toks, cursor, index + 1,
                      IF IsParameter(TokenAt(toks, index))
                      THEN Append(parameters, TokenAt(toks, index))
                      ELSE parameters,
                      read \cup {index + 1})
  ELSE [cursor |-> index,
        parameters |-> parameters,
        tokens |-> SubSeq(toks, cursor + 1, index),
        reads |-> read]

\* parseFunctionParameters with the indices it has read
FunctionParametersCall(toks, cursor) ==
  IF Defined(toks, cursor) /\ TokenAt(toks, cursor).kind = "RightParenthesis"
  THEN [cursor |-> cursor, parameters |-> <<>>, tokens |-> <<>>, reads |-> {cursor}]
  ELSE ParametersLoop(toks, cursor, cursor, <<>>, {cursor})

parseFunctionParameters(toks, cursor) ==
  [field \in {"cursor", "parameters", "tokens"} |->
     FunctionParametersCall(toks, cursor)[field]]

RECURSIVE parseExpression(_, _, _)
RECURSIVE InfixLoop(_, _, _)
RECURSIVE parsePrefixExpression(_, _)
RECURSIVE expandPrefixExpression(_, _)
RECURSIVE parseGroupedExpression(_, _)
RECURSIVE parseInfixExpression(_, _, _)

parseExpression(toks, cursor, precedence) ==
  InfixLoop(toks, parsePrefixExpression(toks, cursor), precedence)

InfixLoop(toks, left, precedence) ==
  IF IsThrown(left) THEN left
  ELSE IF LoopTest(toks, left.cursor, precedence, left.nextPrecedence)
  THEN InfixLoop(toks, parseInfixExpression(toks, left.cursor, left.expression),
                 precedence)
  ELSE left

expandPrefixExpression(toks, cursor) ==
  LET operator == TokenAt(toks, cursor)
      left == [tokens |-> <<operator>>, operator |-> operator]
      right == parseExpression(toks, cursor + 1, Precedence.Prefix)
  IN  IF IsThrown(right) THEN right
      ELSE [expression |-> [tokens |-> left.tokens \o right.expression.tokens,
                            left |-> left,
                            right |-> right.expression],
            cursor |-> right.cursor,
            nextPrecedence |-> right.nextPrecedence]

parseGroupedExpression(toks, cursor) ==
  LET inner == parseExpression(toks, cursor + 1, Precedence.Lowest)
  IN  IF IsThrown(inner) THEN inner
      ELSE LET index == SkipRightParentheses(toks, inner.cursor, 0)
           IN  [expression |-> inner.expression,
                cursor |-> inner.cursor + index,
                nextPrecedence |->
                  determineOperatorPrecedence(toks, inner.cursor + index)]

\* parseInfixExpression that parses its right operand at the lowest precedence
parseInfixExpressionLowest(toks, cursor, left) ==
  LET operator == TokenAt(toks, cursor)
      right == parseExpression(toks, cursor + 1, Precedence.Lowest)
  IN  IF IsThrown(right) THEN right
      ELSE [expression |->
              [tokens |-> (left.tokens \o <<operator>>) \o right.expression.tokens,
               left |-> left,
               operator |-> operator,
               right |-> right.expression],
            cursor |-> right.cursor,
            nextPrecedence |-> right.nextPrecedence]

parseInfixExpression(toks, cursor, left) ==
  LET operator == TokenAt(toks, cursor)
      currentPrecedence == determineOperatorPrecedence(toks, cursor)
      right == parseExpression(toks, cursor + 1, currentPrecedence)
  IN  IF IsThrown(right) THEN right
      ELSE [expression |->
              [tokens |-> (left.tokens \o <<operator>>) \o right.expression.tokens,
               left |-> left,
               operator |-> operator,
               right |-> right.expression],
            cursor |-> right.cursor,
            nextPrecedence |-> right.nextPrecedence]

parsePrefixExpression(toks, cursor) ==
  IF ~Defined(toks, cursor) THEN Thrown
  ELSE CASE TokenAt(toks, cursor).kind \in {"Int", "Identifier", "True", "False"} ->
              parseValueExpression(toks, cursor)
         [] TokenAt(toks, cursor).kind = "LeftParenthesis" ->
              parseGroupedExpression(toks, cursor)
         [] OTHER -> expandPrefixExpression(toks, cursor)

\* assertExpression(): the expression parser records no error of its own
assertExpression == <<>>

parseStatementExpression(toks) == parseExpression(toks, 0, Precedence.Lowest)

(***************************************************************************)
(* Runtime objects, src/evaluator.  An Object is [kind, value]; the Null   *)
(* object has no value field; a Function object has an env field.  An      *)
(* array value is a JavaScript array with an identity (ref) and items; a   *)
(* function value is the FunctionLiteral of the AST.  === compares         *)
(* identities.                                                             *)
(***************************************************************************)
ValueKinds ==
  {"Integer", "Boolean", "Let", "Return", "Error", "Function", "String", "Array"}

createObject(kind, value) ==
  IF kind \in ValueKinds
  THEN [kind |-> kind, value |-> IF value = Undefined THEN IntNum(0) ELSE value]
  ELSE [kind |-> "Null"]

\* obj.kind and obj.value of a value that need not be an Object
KindOf(obj) == IF Has(obj, "kind") THEN obj.kind ELSE "undefined"

ValueOf(obj) == IF Has(obj, "value") THEN obj.value ELSE Undefined

\* createAssertionError(kind, ...).message: a non-empty text naming the kind
createAssertionError(errorKind) == [message |-> Str(<<errorKind>>)]

ErrorObject(errorKind) == createObject("Error", createAssertionError(errorKind).message)

IsError(obj, errorKind) == KindOf(obj) = "Error" /\ obj.value = Str(<<errorKind>>)

StrictEquals(a, b) ==
  CASE a.t # b.t -> FALSE
    [] a.t = "number" -> NumEq(a, b)
    [] a.t = "object" ->
         IF Has(a, "ref") /\ Has(b, "ref") THEN a.ref = b.ref ELSE a = b
    [] a.t = "undefined" -> TRUE
    [] OTHER -> a.v = b.v

\* a JavaScript array of items, the array numbered ref
ArrayValue(ref, items) == [t |-> "object", ref |-> ref, items |-> items]

(***************************************************************************)
(* The store: what evaluation can write.  frames[id] is the Environment    *)
(* numbered id, its bindings and the number of its outer Environment (0:   *)
(* none); an Environment is passed and captured as its number, that is by  *)
(* reference.  envOf lists the env fields that evaluateCallExpression has  *)
(* written onto a callee that had none: a Call node of the AST, an Object  *)
(* bound in a frame, or an entry of the BuiltIns catalog.  refs is the     *)
(* number of arrays allocated so far.                                      *)
(***************************************************************************)
Frame(bindings, outer) == [bindings |-> bindings, outer |-> outer]

\* a result of an evaluation: the object returned (or Thrown) and the store
Result(obj, st) == [object |-> obj, store |-> st]

\* createEnclosedEnvironment(outer): a new Environment with no binding
createEnclosedEnvironment(outer, st) ==
  [env |-> Len(st.frames) + 1,
   store |-> [st EXCEPT !.frames = Append(@, Frame(<<>>, outer))]]

\* Environment.get: the innermost frame that binds name, else undefined
RECURSIVE EnvGet(_, _, _)
EnvGet(st, id, name) ==
  IF id = 0 THEN Undefined
  ELSE IF name \in DOMAIN st.frames[id].bindings
          /\ st.frames[id].bindings[name] # Undefined
  THEN st.frames[id].bindings[name]
  ELSE EnvGet(st, st.frames[id].outer, name)

\* the number of the frame in which Environment.get finds name, else 0
RECURSIVE EnvFind(_, _, _)
EnvFind(st, id, name) ==
  IF id = 0 THEN 0
  ELSE IF name \in DOMAIN st.frames[id].bindings
          /\ st.frames[id].bindings[name] # Undefined
  THEN id
  ELSE EnvFind(st, st.frames[id].outer, name)

\* Environment.set: writes the local frame only
EnvSet(st, id, name, obj) ==
  [st EXCEPT !.frames[id].bindings =
     [n \in (DOMAIN @) \cup {name} |-> IF n = name THEN obj ELSE @[n]]]

\* the env field written onto target, 0 when none was
RECURSIVE WrittenEnvFrom(_, _, _)
WrittenEnvFrom(st, target, i) ==
  IF i > Len(st.envOf) THEN 0
  ELSE IF st.envOf[i].target = target THEN st.envOf[i].env
  ELSE WrittenEnvFrom(st, target, i + 1)

WrittenEnv(st, target) == WrittenEnvFrom(st, target, 1)

BuiltInNames ==
  {<<"l", "e", "n">>, <<"f", "i", "r", "s", "t">>, <<"l", "a", "s", "t">>,
   <<"r", "e", "s", "t">>, <<"p", "u", "s", "h">>, <<"p", "u", "t", "s">>}

BuiltIns == [name \in BuiltInNames |-> [kind |-> "BuiltIn", fn |-> name]]

\* fn.fn(expression, args) of the catalog's entry name (spec 4.4.2)
ApplyBuiltIn(name, args, st) ==
  LET wrong == Result(ErrorObject("InvalidArguments"), st)
      null == Result(createObject("Null", Undefined), st)
      one == Len(args) = 1
      isArray(x) == KindOf(x) = "Array"
      items(x) == x.value.items
      fresh(xs) ==
        Result(createObject("Array", ArrayValue(st.refs + 1, xs)),
               [st EXCEPT !.refs = @ + 1])
  IN  CASE name = <<"l", "e", "n">> ->
             IF one /\ isArray(args[1])
             THEN Result(createObject("Integer", IntNum(Len(items(args[1])))), st)
             ELSE IF one /\ KindOf(args[1]) = "String"
             THEN Result(createObject("Integer", IntNum(Len(args[1].value.v))), st)
             ELSE wrong
        [] name = <<"f", "i", "r", "s", "t">> ->
             IF ~(one /\ isArray(args[1])) THEN wrong
             ELSE IF Len(items(args[1])) = 0 THEN null
             ELSE Result(items(args[1])[1], st)
        [] name = <<"l", "a", "s", "t">> ->
             IF ~(one /\ isArray(args[1])) THEN wrong
             ELSE IF Len(items(args[1])) = 0 THEN null
             ELSE Result(items(args[1])[Len(items(args[1]))], st)
        [] name = <<"r", "e", "s", "t">> ->
             IF ~(one /\ isArray(args[1])) THEN wrong
             ELSE IF Len(items(args[1])) = 0 THEN null
             ELSE fresh(Tail(items(args[1])))
        [] name = <<"p", "u", "s", "h">> ->
             IF Len(args) = 2 /\ isArray(args[1])
             THEN fresh(Append(items(args[1]), args[2]))
             ELSE wrong
        [] OTHER -> null

determineExpressionKind(e) ==
  IF Has(e, "kind") /\ e.kind # "Illegal" THEN e.kind
  ELSE IF Has(e, "left") /\ Has(e, "operator") /\ Has(e, "right") THEN "Infix"
  ELSE IF Has(e, "left") /\ Has(e.left, "operator") THEN "Prefix"
  ELSE IF Has(e, "condition") THEN "IfElse"
  ELSE IF Has(e, "arguments") THEN "Call"
  ELSE IF Has(e, "index") THEN "Index"
  ELSE IF Has(e, "value") /\ Truthy(e.value)
  THEN IF Has(e.value, "body") THEN "Function" ELSE "Array"
  ELSE "Illegal"

evaluateIntegerInfixExpression(left, right, operator) ==
  CASE operator.kind = "Plus" -> createObject("Integer", NumAdd(left, right))
    [] operator.kind = "Minus" -> createObject("Integer", NumSub(left, right))
    [] operator.kind = "Asterisk" -> createObject("Integer", NumMul(left, right))
    [] operator.kind = "Slash" -> createObject("Integer", NumDiv(left, right))
    [] operator.kind = "GreaterThan" ->
         createObject("Boolean", Bool(NumLess(right, left)))
    [] operator.kind = "LessThan" ->
         createObject("Boolean", Bool(NumLess(left, right)))
    [] operator.kind = "Equal" -> createObject("Boolean", Bool(NumEq(left, right)))
    [] operator.kind = "NotEqual" ->
         createObject("Boolean", Bool(~NumEq(left, right)))
    [] OTHER -> createObject("Null", Undefined)

evaluateStringInfixExpression(left, right, operator) ==
  IF operator.kind = "Plus"
  THEN createObject("String", Str(left.v \o right.v))
  ELSE ErrorObject("UnknownOperator")

\* the version of src/unnamed/part_003: a bound object whose value is falsy
\* counts as not found
evaluateIdentifier(e, environment, st) ==
  IF ~(Has(e, "value") /\ Truthy(e.value))
  THEN Result(createObject("Null", Undefined), st)
  ELSE LET identifierValue == EnvGet(st, environment, e.value.v)
       IN  IF identifierValue = Undefined \/ ~Truthy(ValueOf(identifierValue))
           THEN Result(ErrorObject("InvalidIdentifier"), st)
           ELSE Result(identifierValue, st)

evaluateIdentifierExpression(e, environment, st) ==
  IF ~(Has(e, "value") /\ Truthy(e.value))
  THEN Result(createObject("Null", Undefined), st)
  ELSE IF EnvGet(st, environment, e.value.v) # Undefined
  THEN Result(EnvGet(st, environment, e.value.v), st)
  ELSE IF e.value.v \in DOMAIN BuiltIns THEN Result(BuiltIns[e.value.v], st)
  ELSE Result(ErrorObject("InvalidIdentifier"), st)

\* a literal that captures the root Environment whatever env it is evaluated in
evaluateFunctionExpressionRoot(e, environment, st) ==
  Result([env |-> 1] @@ createObject("Function", e.value), st)

evaluateFunctionExpression(e, environment, st) ==
  Result([env |-> environment] @@ createObject("Function", e.value), st)

\* encloseEnvironment: a new frame over outer binding params[i] to args[i],
\* undefined where args is shorter
encloseEnvironment(params, args, outer, st) ==
  LET created == createEnclosedEnvironment(outer, st)
      names == {params[i].literal : i \in 1..Len(params)}
      last(name) == CHOOSE i \in 1..Len(params) :
                      /\ params[i].literal = name
                      /\ \A j \in (i + 1)..Len(params) : params[j].literal # name
      bindings == [name \in names |->
                     IF last(name) <= Len(args) THEN args[last(name)]
                     ELSE Undefined]
  IN  [env |-> created.env,
       store |-> [created.store EXCEPT !.frames[created.env].bindings = bindings]]

\* a property of r.object is read: a TypeError when it is undefined
Read(r) == IF r.object = Undefined THEN Result(Thrown, r.store) ELSE r

\* array.length, array[index] and the comparisons of evaluateIndexExpresion
HasLength(x) == x.t = "string" \/ Has(x, "items")

Length(x) == IF x.t = "string" THEN Len(x.v) ELSE Len(x.items)

\* ToNumber(x) of the relational operators: a string of digits is its number,
\* "" and [] are 0, true is 1, false is 0, every other string or object is NaN
ToNumber(x) ==
  CASE x.t = "number" -> x
    [] x.t = "boolean" -> IntNum(IF x.v THEN 1 ELSE 0)
    [] x.t = "string" ->
         IF Len(x.v) = 0 THEN IntNum(0)
         ELSE IF \A i \in 1..Len(x.v) : IsDigit(x.v[i]) THEN ParseInt(x.v)
         ELSE Num(0, 0)
    [] x.t = "object" ->
         IF Has(x, "items") /\ Len(x.items) = 0 THEN IntNum(0) ELSE Num(0, 0)
    [] OTHER -> Num(0, 0)

\* array[index]: the property whose key is ToString(index), else undefined
PropertyAt(array, index) ==
  LET n == Length(array)
      at(i) == IF array.t = "string" THEN Str(<<array.v[i + 1]>>)
               ELSE array.items[i + 1]
      inRange(i) == i >= 0 /\ i < n
  IN  CASE index.t = "number" ->
             IF IsIntegral(index) /\ inRange(index.v[1]) THEN at(index.v[1])
             ELSE Undefined
        [] index.t = "string" ->
             IF \E i \in 0..(n - 1) : IntLiteral(i) = index.v
             THEN at(CHOOSE i \in 0..(n - 1) : IntLiteral(i) = index.v)
             ELSE Undefined
        [] OTHER -> Undefined

\* index > array.length: the last element is out of range
IndexOutOfRangeStrict(index, array) ==
  \/ NumLess(ToNumber(index), IntNum(0))
  \/ NumLess(IntNum(Length(array)), ToNumber(index))

\* index < 0 || index > array.length - 1
IndexOutOfRange(index, array) ==
  \/ NumLess(ToNumber(index), IntNum(0))
  \/ NumLess(IntNum(Length(array) - 1), ToNumber(index))

RECURSIVE evaluateExpression(_, _, _)
RECURSIVE evaluateStatement(_, _, _)
RECURSIVE evaluateStatementsFrom(_, _, _, _)
RECURSIVE evaluateStatements(_, _, _)
RECURSIVE evaluateLetStatement(_, _, _)
RECURSIVE evaluateReturnStatement(_, _, _)
RECURSIVE applyFunction(_, _, _)
RECURSIVE evaluateExpressionListFrom(_, _, _, _)
RECURSIVE evaluateExpressionList(_, _, _)
RECURSIVE evaluateArrayExpresion(_, _, _)
RECURSIVE evaluateBangOperatorExpression(_, _, _)
RECURSIVE evaluateCallExpression(_, _, _)
RECURSIVE evaluateIfElseExpression(_, _, _)
RECURSIVE evaluateIndexExpresion(_, _, _)
RECURSIVE evaluateMinusPrefixOperatorExpression(_, _, _)
RECURSIVE evaluatePrefixExpression(_, _, _)
RECURSIVE evaluateInfixExpression(_, _, _)

evaluateExpression(e, environment, st) ==
  LET expressionKind == determineExpressionKind(e)
      value == IF Has(e, "value") THEN e.value ELSE Undefined
  IN  CASE expressionKind = "Integer" -> Result(createObject("Integer", value), st)
        [] expressionKind = "Boolean" -> Result(createObject("Boolean", value), st)
        [] expressionKind = "String" -> Result(createObject("String", value), st)
        [] expressionKind = "Function" ->
             evaluateFunctionExpression(e, environment, st)
        [] expressionKind = "Identifier" ->
             evaluateIdentifierExpression(e, environment, st)
        [] expressionKind = "Prefix" -> evaluatePrefixExpression(e, environment, st)
        [] expressionKind = "Infix" -> evaluateInfixExpression(e, environment, st)
        [] expressionKind = "IfElse" -> evaluateIfElseExpression(e, environment, st)
        [] expressionKind = "Call" -> evaluateCallExpression(e, environment, st)
        [] expressionKind = "Array" -> evaluateArrayExpresion(e, environment, st)
        [] expressionKind = "Index" -> evaluateIndexExpresion(e, environment, st)
        [] OTHER -> Result(createObject("Null", value), st)

\* evaluateStatements of src/evaluator/index: the statements of a block in
\* order, in the environment given, up to the first Return or Error, which it
\* hands on as it is; the Null object for an empty block
evaluateStatement(statement, environment, st) ==
  CASE statement.kind = "Let" -> evaluateLetStatement(statement, environment, st)
    [] statement.kind = "Return" ->
         evaluateReturnStatement(statement.expression, environment, st)
    [] OTHER -> evaluateExpression(statement.expression, environment, st)

evaluateStatementsFrom(statements, i, environment, result) ==
  IF i > Len(statements) THEN result
  ELSE LET next == Read(evaluateStatement(statements[i], environment, result.store))
       IN  IF IsThrown(next.object) \/ KindOf(next.object) \in {"Return", "Error"}
           THEN next
           ELSE evaluateStatementsFrom(statements, i + 1, environment, next)

evaluateStatements(statements, environment, st) ==
  evaluateStatementsFrom(statements, 1, environment,
                         Result(createObject("Null", Undefined), st))

\* a let that binds the name whatever the expression evaluates to
evaluateLetStatementUnchecked(statement, environment, st) ==
  IF ~Has(statement, "expression") \/ ~Has(statement, "name")
  THEN Result(createObject("Null", Undefined), st)
  ELSE LET expressionValue ==
             Read(evaluateExpression(statement.expression, environment, st))
       IN  IF IsThrown(expressionValue.object) THEN expressionValue
           ELSE Result(createObject("Null", Undefined),
                       EnvSet(expressionValue.store, environment,
                              statement.name.literal, expressionValue.object))

evaluateLetStatement(statement, environment, st) ==
  IF ~Has(statement, "expression") \/ ~Has(statement, "name")
  THEN Result(createObject("Null", Undefined), st)
  ELSE LET expressionValue ==
             Read(evaluateExpression(statement.expression, environment, st))
       IN  IF IsThrown(expressionValue.object) THEN expressionValue
           ELSE IF KindOf(expressionValue.object) = "Error" THEN expressionValue
           ELSE Result(createObject("Null", Undefined),
                       EnvSet(expressionValue.store, environment,
                              statement.name.literal, expressionValue.object))

evaluateReturnStatement(e, environment, st) ==
  LET inner == evaluateExpression(e, environment, st)
  IN  IF IsThrown(inner.object) THEN inner
      ELSE Result(createObject("Return", inner.object), inner.store)

\* fn carries its env field; args is [list |-> the evaluated arguments] or
\* undefined
applyFunction(fn, args, st) ==
  IF ValueOf(fn) = Undefined THEN Result(Thrown, st)
  ELSE LET hasBody == Has(fn.value, "body")
           hasParameters == Has(fn.value, "parameters")
           enclosed ==
             IF hasParameters /\ Has(args, "list")
             THEN encloseEnvironment(fn.value.parameters, args.list, fn.env, st)
             ELSE [env |-> fn.env, store |-> st]
       IN  IF hasBody
           THEN evaluateStatements(fn.value.body.statements, enclosed.env,
                                   enclosed.store)
           ELSE Result(createObject("Null", Undefined), enclosed.store)

evaluateExpressionListFrom(expressions, i, environment, done) ==
  IF i > Len(expressions) \/ IsThrown(done.object) THEN done
  ELSE LET next == evaluateExpression(expressions[i], environment, done.store)
       IN  evaluateExpressionListFrom(
             expressions, i + 1, environment,
             IF IsThrown(next.object) THEN next
             ELSE Result([list |-> Append(done.object.list, next.object)],
                         next.store))

\* the result's object is [list |-> the evaluated expressions], or Thrown
evaluateExpressionList(expressions, environment, st) ==
  evaluateExpressionListFrom(expressions, 1, environment,
                             Result([list |-> <<>>], st))

evaluateArrayExpresion(array, environment, st) ==
  LET evaluated == evaluateExpressionList(array.value.elements, environment, st)
  IN  IF IsThrown(evaluated.object) THEN evaluated
      ELSE Result(createObject("Array",
                               ArrayValue(evaluated.store.refs + 1,
                                          evaluated.object.list)),
                  [evaluated.store EXCEPT !.refs = @ + 1])

evaluateBangOperatorExpression(right, environment, st) ==
  LET rightValue == Read(evaluateExpression(right, environment, st))
  IN  IF IsThrown(rightValue.object) THEN rightValue
      ELSE Result(createObject("Boolean",
                               Bool(~Truthy(ValueOf(rightValue.object)))),
                  rightValue.store)

\* what fn.env = env of evaluateCallExpression writes on: the Call node, the
\* Object bound in a frame, the catalog's entry, or an Object made for this call
CalleeTarget(e, environment, st) ==
  IF ~Has(e, "identifier") THEN [node |-> e]
  ELSE IF EnvGet(st, environment, e.identifier.literal) # Undefined
  THEN [frame |-> EnvFind(st, environment, e.identifier.literal),
        name |-> e.identifier.literal]
  ELSE IF ~(Has(e, "value") /\ Truthy(e.value)) THEN [temporary |-> TRUE]
  ELSE IF EnvGet(st, environment, e.value.v) # Undefined
  THEN [frame |-> EnvFind(st, environment, e.value.v), name |-> e.value.v]
  ELSE IF e.value.v \in DOMAIN BuiltIns THEN [builtin |-> e.value.v]
  ELSE [temporary |-> TRUE]

evaluateCallExpression(e, environment, st) ==
  LET found == IF Has(e, "identifier")
               THEN EnvGet(st, environment, e.identifier.literal)
               ELSE Undefined
      fn == IF ~Has(e, "identifier") THEN e
            ELSE IF found # Undefined THEN found
            ELSE evaluateIdentifierExpression(e, environment, st).object
      target == CalleeTarget(e, environment, st)
      own == IF Has(fn, "env") THEN fn.env ELSE WrittenEnv(st, target)
      written == IF own = 0 /\ ~Has(target, "temporary")
                 THEN [st EXCEPT !.envOf =
                         Append(@, [target |-> target, env |-> environment])]
                 ELSE st
      callee == [env |-> IF own = 0 THEN environment ELSE own] @@ fn
      args == IF Has(e, "arguments")
              THEN evaluateExpressionList(e.arguments, environment, written)
              ELSE Result(Undefined, written)
  IN  IF IsThrown(args.object) THEN args
      ELSE IF KindOf(fn) = "BuiltIn"
      THEN IF Has(fn, "fn")
           THEN ApplyBuiltIn(fn.fn,
                             IF Has(args.object, "list") THEN args.object.list
                             ELSE <<>>,
                             args.store)
           ELSE Result(createObject("Null", Undefined), args.store)
      ELSE applyFunction(callee, args.object, args.store)

evaluateIfElseExpression(e, environment, st) ==
  IF ~Has(e, "condition") \/ ~Has(e, "consequence")
  THEN Result(createObject("Null", Undefined), st)
  ELSE LET condition == Read(evaluateExpression(e.condition, environment, st))
       IN  IF IsThrown(condition.object) THEN condition
           ELSE IF KindOf(condition.object) = "Error" THEN condition
           ELSE IF Truthy(ValueOf(condition.object))
                   /\ Has(e.consequence, "statements")
           THEN evaluateStatements(e.consequence.statements, environment,
                                   condition.store)
           ELSE IF Has(e, "alternative")
           THEN evaluateStatements(e.alternative.statements, environment,
                                   condition.store)
           ELSE Result(createObject("Null", Undefined), condition.store)

evaluateIndexExpresion(e, environment, st) ==
  IF ~Has(e, "left") \/ ~Has(e, "index")
  THEN Result(createObject("Null", Undefined), st)
  ELSE LET left == Read(evaluateExpression(e.left, environment, st))
           right == Read(evaluateExpression(e.index, environment, left.store))
           array == ValueOf(left.object)
           index == ValueOf(right.object)
       IN  IF IsThrown(left.object) THEN left
           ELSE IF IsThrown(right.object) THEN right
           ELSE IF array = Undefined THEN Result(Thrown, right.store)
           ELSE IF \/ ~HasLength(array)
                   \/ Length(array) = 0
                   \/ (~Truthy(index) /\ index # IntNum(0))
                   \/ IndexOutOfRange(index, array)
           THEN Result(createObject("Null", Undefined), right.store)
           ELSE Result(PropertyAt(array, index), right.store)

evaluateMinusPrefixOperatorExpression(right, environment, st) ==
  LET rightValue == Read(evaluateExpression(right, environment, st))
  IN  IF IsThrown(rightValue.object) THEN rightValue
      ELSE IF KindOf(rightValue.object) = "Error" THEN rightValue
      ELSE IF KindOf(rightValue.object) # "Integer"
      THEN Result(ErrorObject("InvalidToken"), rightValue.store)
      ELSE IF Truthy(rightValue.object.value)
      THEN Result(createObject("Integer", NumNeg(rightValue.object.value)),
                  rightValue.store)
      ELSE Result(createObject("Null", Undefined), rightValue.store)

evaluatePrefixExpression(e, environment, st) ==
  IF ~Has(e, "left") \/ ~Has(e.left, "operator") \/ ~Has(e, "right")
  THEN Result(createObject("Null", Undefined), st)
  ELSE CASE e.left.operator.kind = "Bang" ->
              evaluateBangOperatorExpression(e.right, environment, st)
         [] e.left.operator.kind = "Minus" ->
              evaluateMinusPrefixOperatorExpression(e.right, environment, st)
         [] OTHER -> Result(ErrorObject("UnknownOperator"), st)

\* the test of line 324: typeof left.value !== typeof right.value
TypesDiffer(left, right) == TypeOf(ValueOf(left)) # TypeOf(ValueOf(right))

evaluateInfixExpression(e, environment, st) ==
  IF ~Has(e, "left") \/ ~Has(e, "operator") \/ ~Has(e, "right")
  THEN Result(createObject("Null", Undefined), st)
  ELSE LET l == Read(evaluateExpression(e.left, environment, st))
           r == Read(evaluateExpression(e.right, environment, l.store))
           left == l.object
           right == r.object
       IN  IF IsThrown(left) THEN l
           ELSE IF KindOf(left) = "Error" THEN l
           ELSE IF IsThrown(right) THEN r
           ELSE IF KindOf(right) = "Error" THEN r
           ELSE IF TypesDiffer(left, right)
           THEN Result(ErrorObject("InvalidToken"), r.store)
           ELSE IF TypeOf(ValueOf(left)) = "number"
           THEN Result(evaluateIntegerInfixExpression(left.value, right.value,
                                                      e.operator), r.store)
           ELSE IF TypeOf(ValueOf(left)) = "string"
           THEN Result(evaluateStringInfixExpression(left.value, right.value,
                                                     e.operator), r.store)
           ELSE CASE e.operator.kind = "Equal" ->
                       Result(createObject("Boolean",
                                Bool(StrictEquals(ValueOf(left), ValueOf(right)))),
                              r.store)
                  [] e.operator.kind = "NotEqual" ->
                       Result(createObject("Boolean",
                                Bool(~StrictEquals(ValueOf(left), ValueOf(right)))),
                              r.store)
                  [] OTHER -> Result(ErrorObject("UnknownOperator"), r.store)

(***************************************************************************)
(* Inputs.                                                                 *)
(***************************************************************************)
NoValue == [none |-> TRUE]

OperatorLiterals ==
  [Plus |-> <<"+">>, Minus |-> <<"-">>, Asterisk |-> <<"*">>, Slash |-> <<"/">>,
   LessThan |-> <<"<">>, GreaterThan |-> <<">">>, Equal |-> <<"=", "=">>,
   NotEqual |-> <<"!", "=">>, Bang |-> <<"!">>, LeftParenthesis |-> <<"(">>,
   RightParenthesis |-> <<")">>, Semicolon |-> <<";">>, Comma |-> <<",">>,
   EOF |-> <<>>]

Op(kind) == Token(kind, OperatorLiterals[kind])

IntToken(literal) == Token("Int", literal)

InfixKinds ==
  {"Plus", "Minus", "Asterisk", "Slash", "LessThan", "GreaterThan", "Equal",
   "NotEqual"}

ArithmeticKinds == {"Plus", "Minus", "Asterisk", "Slash"}

\* 1. parenthesis-free inputs: a, a op b, a op b op c, ...
FlatLiterals == {<<"1">>, <<"2">>, <<"3">>, <<"1", "0">>}

FlatInput(literals, operators) ==
  [i \in 1..(2 * Len(literals) - 1) |->
     IF i % 2 = 1 THEN IntToken(literals[(i + 1) \div 2])
     ELSE Op(operators[i \div 2])]

\* 2. source expressions E with k arithmetic operators, whose literals are
\*    first, first + 1, ... from left to right, and their printed form, in
\*    which every operand that is not a literal is parenthesised
RECURSIVE SourceTrees(_, _)
SourceTrees(k, first) ==
  IF k = 0 THEN {[literal |-> IntLiteral(first)]}
  ELSE UNION {{[op |-> o, left |-> l, right |-> r] :
                 o \in ArithmeticKinds, l \in SourceTrees(i, first),
                 r \in SourceTrees(k - 1 - i, first + i + 1)} : i \in 0..(k - 1)}

RECURSIVE PrintSource(_)
PrintOperand(E) ==
  IF Has(E, "literal") THEN PrintSource(E)
  ELSE (<<Op("LeftParenthesis")>> \o PrintSource(E)) \o <<Op("RightParenthesis")>>

PrintSource(E) ==
  IF Has(E, "literal") THEN <<IntToken(E.literal)>>
  ELSE (PrintOperand(E.left) \o <<Op(E.op)>>) \o PrintOperand(E.right)

\* 3. arbitrary token sequences, well-formed or not
AnyTokens ==
  {IntToken(<<"1">>), Op("Minus"), Op("Asterisk"), Op("Bang"),
   Op("LeftParenthesis"), Op("RightParenthesis"), Op("Semicolon"), Op("Comma")}

Sources == UNION {SourceTrees(k, 1) : k \in 1..MaxOps}

\* toks followed by the terminator
Terminated(toks) ==
  [i \in 1..(Len(toks) + 1) |-> IF i <= Len(toks) THEN toks[i] ELSE Op("EOF")]

\* the parser of this version leaves Expression.kind unset; the evaluator reads
\* it: a literal's kind follows its token's kind (spec 3.2)
RECURSIVE tagLiteralKinds(_)
tagLiteralKinds(e) ==
  IF Has(e, "right")
  THEN [f \in DOMAIN e |->
          IF f = "right" \/ (f = "left" /\ Has(e, "operator"))
          THEN tagLiteralKinds(e[f]) ELSE e[f]]
  ELSE IF Has(e, "value")
  THEN [kind |-> CASE e.tokens[1].kind = "Int" -> "Integer"
                   [] e.tokens[1].kind \in {"True", "False"} -> "Boolean"
                   [] e.tokens[1].kind = "Identifier" -> "Identifier"
                   [] OTHER -> "String"] @@ e
  ELSE e

\* evaluator inputs: literals, identifiers, and prefix and infix expressions
Leaf(kind, token) ==
  [kind |-> kind, tokens |-> <<token>>, value |-> parseExpressionValue(token)]

IntegerLeaf(i) == Leaf("Integer", IntToken(IntLiteral(i)))

IdentifierToken(name) == Token("Identifier", name)

IdentifierLeaf(name) == Leaf("Identifier", IdentifierToken(name))

Integer(i) == [kind |-> "Integer", value |-> IntNum(i)]

ArrayObject(ref) == createObject("Array", ArrayValue(ref, <<Integer(1)>>))

\* the FunctionLiteral fn(parameters) { statements }
FunctionLiteral(parameters, statements) ==
  [t |-> "object", parameters |-> parameters, body |-> [statements |-> statements]]

\* fn() { } evaluated in the root Environment
FunctionObject ==
  [env |-> 1] @@ createObject("Function", FunctionLiteral(<<>>, <<>>))

Globals ==
  (<<"a">> :> ArrayObject(1)) @@ (<<"f">> :> FunctionObject)
  @@ (<<"n">> :> createObject("Null", Undefined))
  @@ (<<"z">> :> Integer(0))
  @@ (<<"b">> :> createObject("Boolean", Bool(FALSE)))

Locals ==
  (<<"a">> :> ArrayObject(2))
  @@ (<<"l", "e", "n">> :> createObject("String", Str(<<"a", "b">>)))

\* a new root Environment, with no binding
EmptyStore == [frames |-> <<Frame(<<>>, 0)>>, envOf |-> <<>>, refs |-> 0]

\* the root Environment 1 and an Environment 2 enclosed in it
InitialStore ==
  [frames |-> <<Frame(Globals, 0), Frame(Locals, 1)>>, envOf |-> <<>>, refs |-> 2]

Environments == {1, 2}

IdentifierNames ==
  {<<"a">>, <<"f">>, <<"n">>, <<"z">>, <<"b">>, <<"u">>, <<"l", "e", "n">>}

EvalLeaves ==
  {IntegerLeaf(i) : i \in 0..MaxInt}
  \cup {Leaf("Boolean", Token("True", <<"t", "r", "u", "e">>)),
        Leaf("Boolean", Token("False", <<"f", "a", "l", "s", "e">>))}
  \cup {Leaf("String", Token("String", s)) : s \in {<<>>, <<"a">>}}
  \cup {IdentifierLeaf(name) : name \in IdentifierNames}

PrefixOf(kind, right) ==
  [tokens |-> <<Op(kind)>> \o right.tokens,
   left |-> [tokens |-> <<Op(kind)>>, operator |-> Op(kind)],
   right |-> right]

InfixOf(kind, left, right) ==
  [tokens |-> (left.tokens \o <<Op(kind)>>) \o right.tokens,
   left |-> left, operator |-> Op(kind), right |-> right]

\* the nodes the call, array, index, if and function parsers build; their
\* tokens, which the evaluator reads for the text of a message only, are left out
ArrayOf(elements) ==
  [tokens |-> <<>>, value |-> [t |-> "object", elements |-> elements]]

IndexOf(left, index) == [tokens |-> <<>>, left |-> left, index |-> index]

\* name(arguments): the node holds the identifier and, as value, its name
CallOf(name, arguments) ==
  [tokens |-> <<>>, identifier |-> IdentifierToken(name), value |-> Str(name),
   arguments |-> arguments]

\* fn(...) { ... }(arguments): the node holds the literal as value
CallLiteral(literal, arguments) ==
  [tokens |-> <<>>, value |-> literal, arguments |-> arguments]

FunctionOf(parameters, statements) ==
  [tokens |-> <<>>, value |-> FunctionLiteral(parameters, statements)]

ExpressionOf(e) == [kind |-> "Expression", expression |-> e]

LetOf(name, e) ==
  [kind |-> "Let", name |-> IdentifierToken(name), expression |-> e]

ReturnOf(e) == [kind |-> "Return", expression |-> e]

Block(statements) == [statements |-> statements]

IfOf(condition, consequence) ==
  [tokens |-> <<>>, condition |-> condition, consequence |-> Block(consequence)]

IfElseOf(condition, consequence, alternative) ==
  [tokens |-> <<>>, condition |-> condition, consequence |-> Block(consequence),
   alternative |-> Block(alternative)]

EvalOperands ==
  EvalLeaves \cup {PrefixOf(k, x) : k \in {"Bang", "Minus"}, x \in EvalLeaves}

\* the elements of an array literal and the arguments of a call
ElementLeaves ==
  {IntegerLeaf(1), IntegerLeaf(2), IdentifierLeaf(<<"u">>), IdentifierLeaf(<<"a">>)}

ExpressionLists == UNION {[1..n -> ElementLeaves] : n \in 0..MaxElements}

ArrayLiterals == {ArrayOf(elements) : elements \in ExpressionLists}

Collections ==
  ArrayLiterals
  \cup {IdentifierLeaf(name) : name \in {<<"a">>, <<"n">>, <<"u">>, <<"z">>}}
  \cup {Leaf("String", Token("String", s)) : s \in {<<>>, <<"a">>}}

Conditions == EvalOperands \cup ArrayLiterals

\* fn(x) { x + 1 }
Successor ==
  FunctionLiteral(<<IdentifierToken(<<"x">>)>>,
                  <<ExpressionOf(InfixOf("Plus", IdentifierLeaf(<<"x">>),
                                         IntegerLeaf(1)))>>)

EvalCompounds ==
  {IndexOf(c, i) : c \in Collections, i \in EvalOperands}
  \cup {PrefixOf("Bang", array) : array \in ArrayLiterals}
  \cup ArrayLiterals
  \cup {IfOf(c, <<ExpressionOf(IntegerLeaf(1))>>) : c \in Conditions}
  \cup {IfElseOf(c, <<ExpressionOf(IntegerLeaf(1))>>, <<ExpressionOf(IntegerLeaf(2))>>) :
          c \in Conditions}
  \cup {CallOf(name, arguments) :
          name \in IdentifierNames, arguments \in ExpressionLists}
  \cup {CallLiteral(Successor, arguments) : arguments \in ExpressionLists}

EvalInputs ==
  EvalOperands
  \cup {InfixOf(k, x, y) : k \in InfixKinds, x \in EvalOperands, y \in EvalOperands}
  \cup EvalCompounds

\* programs: the statements the driver evaluates one after the other
NewAdder == <<"n", "e", "w", "A", "d", "d", "e", "r">>

AddTwo == <<"a", "d", "d", "T", "w", "o">>

\* fn(y) { x + y }
AddX ==
  FunctionLiteral(<<IdentifierToken(<<"y">>)>>,
                  <<ExpressionOf(InfixOf("Plus", IdentifierLeaf(<<"x">>),
                                         IdentifierLeaf(<<"y">>)))>>)

\* let x = A; let newAdder = fn(x) { fn(y) { x + y } };
\* let addTwo = newAdder(B); let x = C; addTwo(D)
Adder(A, B, C, D) ==
  <<LetOf(<<"x">>, IntegerLeaf(A)),
    LetOf(NewAdder, FunctionOf(<<IdentifierToken(<<"x">>)>>,
                               <<ExpressionOf([tokens |-> <<>>, value |-> AddX])>>)),
    LetOf(AddTwo, CallOf(NewAdder, <<IntegerLeaf(B)>>)),
    LetOf(<<"x">>, IntegerLeaf(C)),
    ExpressionOf(CallOf(AddTwo, <<IntegerLeaf(D)>>))>>

\* let x = A; let g = fn() { x }; let h = fn(x) { g() }; h(B)
Scope(A, B) ==
  <<LetOf(<<"x">>, IntegerLeaf(A)),
    LetOf(<<"g">>, FunctionOf(<<>>, <<ExpressionOf(IdentifierLeaf(<<"x">>))>>)),
    LetOf(<<"h">>, FunctionOf(<<IdentifierToken(<<"x">>)>>,
                              <<ExpressionOf(CallOf(<<"g">>, <<>>))>>)),
    ExpressionOf(CallOf(<<"h">>, <<IntegerLeaf(B)>>))>>

\* let g = fn(x) { fn(y) { x + y }(1) }; g(A); g(B)
Twice(A, B) ==
  <<LetOf(<<"g">>, FunctionOf(<<IdentifierToken(<<"x">>)>>,
                              <<ExpressionOf(CallLiteral(AddX, <<IntegerLeaf(1)>>))>>)),
    ExpressionOf(CallOf(<<"g">>, <<IntegerLeaf(A)>>)),
    ExpressionOf(CallOf(<<"g">>, <<IntegerLeaf(B)>>))>>

\* if (c) { let w = 1; x }
NestedLets ==
  {IfOf(c, <<LetOf(<<"w">>, IntegerLeaf(1)), ExpressionOf(IdentifierLeaf(x))>>) :
     c \in {Leaf("Boolean", Token("True", <<"t", "r", "u", "e">>)),
            Leaf("Boolean", Token("False", <<"f", "a", "l", "s", "e">>))},
     x \in {<<"w">>, <<"u">>}}

LetExpressions ==
  EvalOperands \cup ArrayLiterals \cup NestedLets
  \cup {CallOf(name, <<>>) : name \in IdentifierNames}

LetNames == {<<"y">>, <<"z">>}

ReturnExpressions == EvalOperands \cup ArrayLiterals

Arguments == 0..MaxArg

Programs ==
  {Adder(A, B, C, D) : A \in Arguments, B \in Arguments, C \in Arguments,
                       D \in Arguments}
  \cup {Scope(A, B) : A \in Arguments, B \in Arguments}
  \cup {Twice(A, B) : A \in Arguments, B \in Arguments}
  \cup {<<LetOf(name, e)>> : name \in LetNames, e \in LetExpressions}
  \cup {<<ReturnOf(e)>> : e \in ReturnExpressions}

(***************************************************************************)
(* The state machines.                                                     *)
(***************************************************************************)
\* the parser is called from cursor 0 at the lowest precedence, or not at all
NoParserCall ==
  /\ startCursor = 0
  /\ minPrecedence = Precedence.Lowest
  /\ cursors = <<>>
  /\ reads = {}

Init ==
  /\ \/ \E n \in 1..MaxOperands :
          \E literals \in [1..n -> FlatLiterals],
             operators \in [1..(n - 1) -> InfixKinds] :
            tokens = Terminated(FlatInput(literals, operators)) /\ source = NoValue
     \/ \E E \in Sources : tokens = Terminated(PrintSource(E)) /\ source = E
     \/ \E n \in 1..MaxTokens :
          \E toks \in [1..n -> AnyTokens] :
            tokens = Terminated(toks) /\ source = NoValue
  /\ pc = "lexed"
  /\ parseResult = NoValue
  /\ errors = <<>>
  /\ expression = NoValue
  /\ env = 1
  /\ store = EmptyStore
  /\ before = EmptyStore
  /\ object = NoValue
  /\ program = <<>>
  /\ ip = 0
  /\ NoParserCall

\* parseStatementExpression(tokens), or the TypeError it throws
Parse ==
  /\ pc = "lexed"
  /\ parseResult' = parseStatementExpression(tokens)
  /\ errors' = assertExpression
  /\ pc' = IF IsThrown(parseResult') THEN "thrown" ELSE "parsed"
  /\ expression' = IF IsThrown(parseResult') THEN NoValue
                   ELSE tagLiteralKinds(parseResult'.expression)
  /\ UNCHANGED <<tokens, source, env, store, before, object, program, ip>>
  /\ UNCHANGED parserVars

\* evaluateExpression(expression, env), or the TypeError it throws
Evaluate ==
  /\ pc = "parsed"
  /\ \E result \in {evaluateExpression(expression, env, store)} :
       /\ object' = result.object
       /\ store' = result.store
       /\ pc' = IF IsThrown(result.object) THEN "aborted" ELSE "evaluated"
  /\ before' = store
  /\ UNCHANGED <<tokens, source, parseResult, errors, expression, env, program, ip>>
  /\ UNCHANGED parserVars

Next == Parse \/ Evaluate

Spec == Init /\ [][Next]_vars

InitEval ==
  /\ tokens = <<>>
  /\ source = NoValue
  /\ pc = "parsed"
  /\ parseResult = NoValue
  /\ errors = <<>>
  /\ expression \in EvalInputs
  /\ env \in Environments
  /\ store = InitialStore
  /\ before = InitialStore
  /\ object = NoValue
  /\ program = <<>>
  /\ ip = 0
  /\ NoParserCall

NextEval == Evaluate

SpecEval == InitEval /\ [][NextEval]_vars

\* the driver: program[ip] is the next statement; a Return, an Error or a
\* TypeError ends the run
InitRun ==
  /\ tokens = <<>>
  /\ source = NoValue
  /\ pc = "running"
  /\ parseResult = NoValue
  /\ errors = <<>>
  /\ expression = NoValue
  /\ env \in Environments
  /\ store = InitialStore
  /\ before = InitialStore
  /\ object = NoValue
  /\ program \in Programs
  /\ ip = 1
  /\ NoParserCall

\* the statement program[ip] evaluated by evaluate(statement, env, store)
Step(evaluated) ==
  /\ \E result \in {evaluated} :
       /\ object' = result.object
       /\ store' = result.store
       /\ pc' = IF IsThrown(result.object) THEN "aborted"
                ELSE IF KindOf(result.object) \in {"Return", "Error"} THEN "halted"
                ELSE "running"
  /\ before' = store
  /\ ip' = ip + 1
  /\ UNCHANGED <<tokens, source, parseResult, errors, expression, env, program>>
  /\ UNCHANGED parserVars

Running(kind) == pc = "running" /\ ip <= Len(program) /\ program[ip].kind = kind

LetStatement ==
  /\ Running("Let")
  /\ Step(evaluateLetStatement(program[ip], env, store))

ReturnStatement ==
  /\ Running("Return")
  /\ Step(evaluateReturnStatement(program[ip].expression, env, store))

ExpressionStatement ==
  /\ Running("Expression")
  /\ Step(evaluateExpression(program[ip].expression, env, store))

NextRun == LetStatement \/ ReturnStatement \/ ExpressionStatement

SpecRun == InitRun /\ [][NextRun]_vars

\* the tokens of a function literal from its '(' on: parameters, separators,
\* parentheses and a token that is none of these
ParameterTokens ==
  {IdentifierToken(<<"x">>), IdentifierToken(<<"y">>), Op("Comma"),
   Op("RightParenthesis"), Op("LeftParenthesis"), IntToken(<<"1">>)}

FunctionToken == Token("Function", <<"f", "n">>)

\* the cursors that follow a '('
AfterLeftParenthesis(toks) ==
  {i \in 1..Len(toks) : TokenAt(toks, i - 1).kind = "LeftParenthesis"}

\* fn ( ... EOF, and parseFunctionParameters about to be called at the token
\* after a '('
InitParameters ==
  /\ \E n \in 0..MaxTokens :
       \E toks \in [1..n -> ParameterTokens] :
         tokens = Terminated(<<FunctionToken, Op("LeftParenthesis")>> \o toks)
  /\ startCursor \in AfterLeftParenthesis(tokens)
  /\ minPrecedence = Precedence.Lowest
  /\ cursors = <<>>
  /\ reads = {}
  /\ source = NoValue
  /\ pc = "lexed"
  /\ parseResult = NoValue
  /\ errors = <<>>
  /\ expression = NoValue
  /\ env = 1
  /\ store = EmptyStore
  /\ before = EmptyStore
  /\ object = NoValue
  /\ program = <<>>
  /\ ip = 0

\* parseFunctionParameters(tokens, startCursor)
ParseFunctionParameters ==
  /\ pc = "lexed"
  /\ parseResult' = parseFunctionParameters(tokens, startCursor)
  /\ reads' = FunctionParametersCall(tokens, startCursor).reads
  /\ pc' = "parsed"
  /\ UNCHANGED <<tokens, source, errors, expression, env, object, store, before,
                 program, ip, startCursor, minPrecedence, cursors>>

NextParameters == ParseFunctionParameters

SpecParameters == InitParameters /\ [][NextParameters]_vars

\* values, prefix operators, infix operators and parentheses
ExpressionTokens ==
  {IntToken(<<"1">>), Op("Minus"), Op("Asterisk"), Op("Bang"),
   Op("LeftParenthesis"), Op("RightParenthesis")}

\* the precedences parseExpression is called with: Lowest (a statement, a
\* group), Prefix (the operand of a prefix operator) and the precedence of the
\* operator of an infix expression
CallPrecedences ==
  {Precedence.Lowest, Precedence.Prefix}
    \cup {OperatorPrecedences[t.kind] :
            t \in {k \in ExpressionTokens : k.kind \in DOMAIN OperatorPrecedences}}

\* parseExpression(tokens, startCursor, minPrecedence) about to be called on a
\* token sequence, terminated or not, or on a chain 1 op 1 op ..., at one of
\* its tokens
InitParse ==
  /\ \/ \E n \in 1..MaxTokens :
          \E toks \in [1..n -> ExpressionTokens] :
            tokens \in {toks, Terminated(toks)}
     \/ \E n \in 1..MaxOperands :
          \E operators \in [1..(n - 1) -> {"Minus", "Asterisk"}] :
            tokens = Terminated(FlatInput([i \in 1..n |-> <<"1">>], operators))
  /\ startCursor \in 0..(Len(tokens) - 1)
  /\ minPrecedence \in CallPrecedences
  /\ cursors = <<>>
  /\ reads = {}
  /\ source = NoValue
  /\ pc = "lexed"
  /\ parseResult = NoValue
  /\ errors = <<>>
  /\ expression = NoValue
  /\ env = 1
  /\ store = EmptyStore
  /\ before = EmptyStore
  /\ object = NoValue
  /\ program = <<>>
  /\ ip = 0

\* leftExpressionParseResult = result, or the TypeError the call has thrown
Left(result, position) ==
  /\ parseResult' = result
  /\ pc' = IF IsThrown(result) THEN "thrown" ELSE position
  /\ cursors' = IF IsThrown(result) THEN cursors ELSE Append(cursors, result.cursor)
  /\ UNCHANGED <<tokens, source, errors, expression, env, object, store, before,
                 program, ip, startCursor, minPrecedence, reads>>

\* parseExpression, lines 22-25: the prefix expression at startCursor
ParsePrefix ==
  /\ pc = "lexed"
  /\ Left(parsePrefixExpression(tokens, startCursor), "loop")

\* parseExpression, lines 27-31: one iteration of the while loop
ParseInfix ==
  /\ pc = "loop"
  /\ LoopTest(tokens, parseResult.cursor, minPrecedence, parseResult.nextPrecedence)
  /\ Left(parseInfixExpression(tokens, parseResult.cursor, parseResult.expression),
          "loop")

\* parseExpression, line 33: the loop test fails and the result is returned
ReturnResult ==
  /\ pc = "loop"
  /\ ~LoopTest(tokens, parseResult.cursor, minPrecedence, parseResult.nextPrecedence)
  /\ pc' = "returned"
  /\ UNCHANGED <<tokens, source, parseResult, errors, expression, env, object,
                 store, before, program, ip>>
  /\ UNCHANGED parserVars

NextParse == ParsePrefix \/ ParseInfix \/ ReturnResult

SpecParse == InitParse /\ [][NextParse]_vars

(***************************************************************************)
(* Helpers of the properties.                                              *)
(***************************************************************************)
\* the structure of a parsed expression: Value(v), Prefix(op, right) or
\* Infix(op, left, right)
RECURSIVE Shape(_)
Shape(e) ==
  IF Has(e, "left") /\ Has(e, "operator")
  THEN <<"Infix", e.operator.kind, Shape(e.left), Shape(e.right)>>
  ELSE IF Has(e, "left")
  THEN <<"Prefix", e.left.operator.kind, Shape(e.right)>>
  ELSE <<"Value", e.value>>

\* the kinds of the operators of the Prefix nodes of a parsed expression
RECURSIVE PrefixOperatorKinds(_)
PrefixOperatorKinds(e) ==
  IF Has(e, "left") /\ Has(e, "operator")
  THEN PrefixOperatorKinds(e.left) \cup PrefixOperatorKinds(e.right)
  ELSE IF Has(e, "left")
  THEN {e.left.operator.kind} \cup PrefixOperatorKinds(e.right)
  ELSE {}

Parsed == pc \in {"parsed", "evaluated"}

\* the tokens before the terminator
Body == SubSeq(tokens, 1, Len(tokens) - 1)

\* a op b op c ...: integers at the odd places, infix operators at the even ones
IsFlat(toks) ==
  /\ Len(toks) % 2 = 1
  /\ \A i \in 1..Len(toks) :
       IF i % 2 = 1 THEN toks[i].kind = "Int" ELSE toks[i].kind \in InfixKinds

\* how tightly an infix operator binds, as the claim orders them
BindingRank(kind) ==
  CASE kind \in {"Equal", "NotEqual"} -> 1
    [] kind \in {"LessThan", "GreaterThan"} -> 2
    [] kind \in {"Plus", "Minus"} -> 3
    [] kind \in {"Asterisk", "Slash"} -> 4

\* the tree of toks[lo..hi]: its root is the last of the loosest operators
RECURSIVE PrecedenceTree(_, _, _)
PrecedenceTree(toks, lo, hi) ==
  IF lo = hi THEN <<"Value", ParseInt(toks[lo].literal)>>
  ELSE LET places == {i \in lo..hi : i % 2 = 0}
           root == CHOOSE i \in places :
                     \A j \in places :
                       \/ BindingRank(toks[j].kind) > BindingRank(toks[i].kind)
                       \/ (BindingRank(toks[j].kind) = BindingRank(toks[i].kind)
                           /\ j <= i)
       IN  <<"Infix", toks[root].kind, PrecedenceTree(toks, lo, root - 1),
             PrecedenceTree(toks, root + 1, hi)>>

ValueShape(i) == <<"Value", IntNum(i)>>

\* the expression a source tree E denotes
RECURSIVE SourceExpression(_)
SourceExpression(E) ==
  IF Has(E, "literal") THEN Leaf("Integer", IntToken(E.literal))
  ELSE InfixOf(E.op, SourceExpression(E.left), SourceExpression(E.right))

\* every ')' closes an open '(' and no '(' stays open
RECURSIVE OpenGroups(_, _)
OpenGroups(toks, i) ==
  IF i = 0 THEN 0
  ELSE LET open == OpenGroups(toks, i - 1)
       IN  IF open < 0 THEN open
           ELSE IF toks[i].kind = "LeftParenthesis" THEN open + 1
           ELSE IF toks[i].kind = "RightParenthesis" THEN open - 1
           ELSE open

Balanced(toks) == OpenGroups(toks, Len(toks)) = 0

(***************************************************************************)
(* Properties of the parser, under Spec.                                   *)
(***************************************************************************)
\* C1: a parenthesis-free sequence of integers separated by infix operators
\* parses, up to its terminator, to the tree in which * and / bind tighter
\* than + and -, these tighter than < and >, these tighter than == and !=.
C1_OperatorPrecedence ==
  (pc # "lexed" /\ IsFlat(Body)) =>
    /\ ~IsThrown(parseResult)
    /\ parseResult.cursor = Len(Body)
    /\ Shape(parseResult.expression) = PrecedenceTree(Body, 1, Len(Body))

\* 1 + 2 * 3 has become Infix(+, 1, Infix(*, 2, 3)) and evaluated to 7
C1_Witness ==
  /\ pc = "evaluated"
  /\ Body = <<IntToken(<<"1">>), Op("Plus"), IntToken(<<"2">>), Op("Asterisk"),
              IntToken(<<"3">>)>>
  /\ Shape(parseResult.expression)
       = <<"Infix", "Plus", ValueShape(1),
           <<"Infix", "Asterisk", ValueShape(2), ValueShape(3)>>>>
  /\ object = Integer(7)

\* C2: a chain a op1 b op2 c of two operators of equal precedence parses to
\* Infix(op2, Infix(op1, a, b), c): the operators associate to the left.
C2_LeftAssociativity ==
  (/\ pc # "lexed"
   /\ IsFlat(Body)
   /\ Len(Body) = 5
   /\ determineOperatorPrecedence(Body, 1) = determineOperatorPrecedence(Body, 3)) =>
    /\ ~IsThrown(parseResult)
    /\ Shape(parseResult.expression)
         = <<"Infix", Body[4].kind,
             <<"Infix", Body[2].kind, <<"Value", ParseInt(Body[1].literal)>>,
               <<"Value", ParseInt(Body[3].literal)>>>>,
             <<"Value", ParseInt(Body[5].literal)>>>>

\* 10 - 3 - 2 has become Infix(-, Infix(-, 10, 3), 2) and evaluated to 5
C2_Witness ==
  /\ pc = "evaluated"
  /\ Body = <<IntToken(<<"1", "0">>), Op("Minus"), IntToken(<<"3">>), Op("Minus"),
              IntToken(<<"2">>)>>
  /\ Shape(parseResult.expression)
       = <<"Infix", "Minus",
           <<"Infix", "Minus", ValueShape(10), ValueShape(3)>>, ValueShape(2)>>
  /\ object = Integer(5)

\* C3: a printed source expression parses back to itself, each parenthesised
\* operand as one operand, and evaluates to the value of the source expression.
C3_Grouping ==
  (pc # "lexed" /\ source # NoValue) =>
    /\ ~IsThrown(parseResult)
    /\ Shape(parseResult.expression) = Shape(SourceExpression(source))
    /\ pc = "evaluated" =>
         object = evaluateExpression(SourceExpression(source), env, before).object

\* C4: the parser never throws: parsing an EOF-terminated token sequence never
\* dereferences a token beyond the end of the sequence.
C4_ParserNeverThrows == pc # "thrown" /\ ~IsThrown(parseResult)

\* C5: every Prefix node the parser produces has the operator ! or -.
C5_PrefixOperators ==
  Parsed => PrefixOperatorKinds(parseResult.expression) \subseteq {"Bang", "Minus"}

\* C6: an input whose parentheses do not match one to one is not accepted
\* without a parse error.
C6_UnbalancedParentheses == (Parsed /\ ~Balanced(Body)) => Len(errors) > 0

(***************************************************************************)
(* Properties of the evaluator, under SpecEval.                            *)
(***************************************************************************)
Evaluated == pc = "evaluated"

IsInfix == determineExpressionKind(expression) = "Infix"

IsPrefixOf(kind) ==
  determineExpressionKind(expression) = "Prefix" /\ expression.left.operator.kind = kind

LeftObject == evaluateExpression(expression.left, env, before).object

RightObject == evaluateExpression(expression.right, env, before).object

\* the quotient of two integers, truncated toward zero
TruncatedQuotient(a, b) == Sign(a) * Sign(b) * (Abs(a) \div Abs(b))

\* C7: an infix expression whose operands are non-Error values of different
\* runtime type tags yields an Error of kind InvalidToken.
C7_TypeMismatch ==
  (/\ Evaluated
   /\ IsInfix
   /\ LeftObject.kind # "Error"
   /\ RightObject.kind # "Error"
   /\ LeftObject.kind # RightObject.kind) => IsError(object, "InvalidToken")

\* C8: + - * / on Integer operands a and b, b # 0, yield an Integer whose value
\* is an integer, and a / b is the quotient truncated toward zero.
C8_IntegerArithmetic ==
  (/\ Evaluated
   /\ IsInfix
   /\ expression.operator.kind \in ArithmeticKinds
   /\ LeftObject.kind = "Integer"
   /\ RightObject.kind = "Integer"
   /\ RightObject.value # IntNum(0)) =>
    /\ object.kind = "Integer"
    /\ IsIntegral(object.value)
    /\ expression.operator.kind = "Slash" =>
         object.value = IntNum(TruncatedQuotient(LeftObject.value.v[1],
                                                 RightObject.value.v[1]))

\* C9: -operand yields Integer(-v) when the operand evaluates to Integer(v),
\* an Error of kind InvalidToken when it evaluates to another non-Error value,
\* and never Null.
C9_PrefixMinus ==
  (Evaluated /\ IsPrefixOf("Minus")) =>
    /\ RightObject.kind = "Integer" =>
         object = createObject("Integer", NumNeg(RightObject.value))
    /\ RightObject.kind \notin {"Integer", "Error"} => IsError(object, "InvalidToken")
    /\ object.kind # "Null"

\* C10: !operand yields the operand's Error when the operand evaluates to one.
C10_BangShortCircuit ==
  (Evaluated /\ IsPrefixOf("Bang") /\ RightObject.kind = "Error") =>
    object = RightObject


ExpressionKindIs(kind) ==
  expression # NoValue /\ determineExpressionKind(expression) = kind

\* the expressions of an array literal or of the arguments of a call
ListOf(e) ==
  IF determineExpressionKind(e) = "Array" THEN e.value.elements ELSE e.arguments

ElementObject(i) == evaluateExpression(ListOf(expression)[i], env, before).object

ElementErrors ==
  {i \in 1..Len(ListOf(expression)) : KindOf(ElementObject(i)) = "Error"}

FirstElementError == CHOOSE i \in ElementErrors : \A j \in ElementErrors : i <= j

\* the callee of a call by identifier, as the identifier evaluates
CalleeObject ==
  evaluateExpression(IdentifierLeaf(expression.identifier.literal), env,
                     before).object

\* C11: an Array object holds no Error element, and an array literal or a
\* call of a function or built-in one of whose elements or arguments
\* evaluates to an Error yields the first such Error.
C11_ExpressionListShortCircuit ==
  /\ (Evaluated /\ KindOf(object) = "Array") =>
       \A i \in 1..Len(object.value.items) :
         KindOf(object.value.items[i]) # "Error"
  /\ (/\ pc \in {"evaluated", "aborted"}
      /\ \/ ExpressionKindIs("Array")
         \/ /\ ExpressionKindIs("Call")
            /\ Has(expression, "identifier") =>
                 KindOf(CalleeObject) \in {"Function", "BuiltIn"}
      /\ ElementErrors # {}) => object = ElementObject(FirstElementError)

\* truthy of spec 4.4.1
SpecTruthy(obj) ==
  CASE obj.kind = "Null" -> FALSE
    [] obj.kind = "Boolean" -> obj.value.v
    [] obj.kind = "Integer" -> obj.value # IntNum(0)
    [] obj.kind = "String" -> Len(obj.value.v) > 0
    [] obj.kind = "Array" -> Len(obj.value.items) > 0

TruthKinds == {"Null", "Boolean", "Integer", "String", "Array"}

ConditionObject == evaluateExpression(expression.condition, env, before).object

\* C12: !x yields Boolean(!truthy(x)), and if (x) {1} else {2} yields 1 when
\* truthy(x) and 2 otherwise, where Null, false, 0, "" and [] are not truthy
\* and every other Boolean, Integer, String and Array is.
C12_Truthiness ==
  /\ (Evaluated /\ IsPrefixOf("Bang") /\ KindOf(RightObject) \in TruthKinds) =>
       object = createObject("Boolean", Bool(~SpecTruthy(RightObject)))
  /\ (/\ Evaluated
      /\ ExpressionKindIs("IfElse")
      /\ Has(expression, "alternative")
      /\ KindOf(ConditionObject) \in TruthKinds) =>
       object = IF SpecTruthy(ConditionObject) THEN Integer(1) ELSE Integer(2)

\* C13: a call whose callee is bound to an Integer, a Boolean, a String or
\* an Array yields an Error; a call whose callee is unbound yields the
\* identifier's Error; neither yields Null.
C13_NonCallable ==
  (/\ pc \in {"evaluated", "aborted"}
   /\ ExpressionKindIs("Call")
   /\ Has(expression, "identifier")) =>
    /\ KindOf(CalleeObject) \in {"Integer", "Boolean", "String", "Array"} =>
         KindOf(object) = "Error"
    /\ KindOf(CalleeObject) = "Error" => object = CalleeObject

(***************************************************************************)
(* Properties of the statements, under SpecRun.                            *)
(***************************************************************************)
\* the statement that the last step evaluated
Last == program[ip - 1]

Stepped(kind) == ip > 1 /\ Last.kind = kind

Bound(name) == store.frames[env].bindings[name]

\* the integer of the literal that statement i binds, and of the argument of
\* the call of statement i
LiteralOf(i) == program[i].expression.value.v[1]

ArgumentOf(i) == program[i].expression.arguments[1].value.v[1]

IsAdder ==
  /\ Len(program) = 5
  /\ program = Adder(LiteralOf(1), ArgumentOf(3), LiteralOf(4), ArgumentOf(5))

IsScope == Len(program) = 4 /\ program = Scope(LiteralOf(1), ArgumentOf(4))

IsTwice == Len(program) = 3 /\ program = Twice(ArgumentOf(2), ArgumentOf(3))

\* C14: a function literal evaluated in env yields a Function whose env is
\* env; the Function that newAdder(B) returns has as env a frame made for
\* that call, whose outer is newAdder's env and whose only binding is
\* x -> B; addTwo(D) yields B + D whatever x is bound to where it is called;
\* and a free x of g resolves where g was defined, not in its caller h.
C14_LexicalClosure ==
  /\ (/\ Stepped("Let")
      /\ determineExpressionKind(Last.expression) = "Function") =>
       /\ Bound(Last.name.literal).kind = "Function"
       /\ Bound(Last.name.literal).value = Last.expression.value
       /\ Bound(Last.name.literal).env = env
  /\ IsAdder =>
       /\ ip > 3 =>
            /\ Bound(AddTwo).kind = "Function"
            /\ Bound(AddTwo).value = AddX
            /\ Bound(AddTwo).env > Len(InitialStore.frames)
            /\ store.frames[Bound(AddTwo).env]
                 = Frame(<<"x">> :> Integer(ArgumentOf(3)), Bound(NewAdder).env)
       /\ ip = 6 => object = Integer(ArgumentOf(3) + ArgumentOf(5))
  /\ (IsScope /\ ip = 5) => object = Integer(LiteralOf(1))

\* let newAdder = fn(x) { fn(y) { x + y } }; let addTwo = newAdder(2) and,
\* with x bound to 1 at the place of the call, addTwo(3) has yielded 5
C14_Witness ==
  /\ program = Adder(0, 2, 1, 3)
  /\ ip = 6
  /\ Bound(<<"x">>) = Integer(1)
  /\ object = Integer(5)


\* the bound expression of the let statement of the last step, evaluated
LetValue == evaluateExpression(Last.expression, env, before)

\* frames is old but for the binding name -> obj of the frame numbered id
OneBinding(frames, old, id, name, obj) ==
  /\ Len(frames) = Len(old)
  /\ \A f \in 1..Len(old) : f # id => frames[f] = old[f]
  /\ frames[id].outer = old[id].outer
  /\ DOMAIN frames[id].bindings = DOMAIN old[id].bindings \cup {name}
  /\ frames[id].bindings[name] = obj
  /\ \A n \in DOMAIN old[id].bindings :
       n # name => frames[id].bindings[n] = old[id].bindings[n]

\* C15 as stated: a let statement whose expression evaluates to an Error
\* returns that Error and leaves every binding of the environment as it was
\* before the statement; otherwise it returns Null and the bindings differ
\* from those before the statement in name -> value of the local frame only.
C15_LetStatementAsStated ==
  (Stepped("Let") /\ ~IsThrown(LetValue.object)) =>
    IF KindOf(LetValue.object) = "Error"
    THEN /\ object = LetValue.object
         /\ store.frames = before.frames
    ELSE /\ object = createObject("Null", Undefined)
         /\ OneBinding(SubSeq(store.frames, 1, Len(before.frames)),
                       before.frames, env, Last.name.literal, LetValue.object)

\* C15: a let statement whose expression evaluates to an Error returns that
\* Error and leaves every binding as the evaluation of the expression left
\* it; otherwise it returns Null and the bindings differ from those the
\* evaluation of the expression left in name -> value of the local frame only.
C15_LetStatement ==
  (Stepped("Let") /\ ~IsThrown(LetValue.object)) =>
    IF KindOf(LetValue.object) = "Error"
    THEN /\ object = LetValue.object
         /\ store = LetValue.store
    ELSE /\ object = createObject("Null", Undefined)
         /\ OneBinding(store.frames, LetValue.store.frames, env,
                       Last.name.literal, LetValue.object)
         /\ store.envOf = LetValue.store.envOf

\* let z = 1 in the enclosed environment 2 has bound z there and left the
\* z of the root environment as it was
C15_Witness ==
  /\ Stepped("Let")
  /\ env = 2
  /\ Last.name.literal = <<"z">>
  /\ Last.expression = IntegerLeaf(1)
  /\ object = createObject("Null", Undefined)
  /\ store.frames[2].bindings[<<"z">>] = Integer(1)
  /\ store.frames[1].bindings[<<"z">>] = Integer(0)

\* C16: a return statement whose expression evaluates to an Error returns
\* that Error itself, and no Return object holds an Error.
C16_ReturnOnError ==
  Stepped("Return") =>
    /\ KindOf(LetValue.object) = "Error" => object = LetValue.object
    /\ KindOf(object) = "Return" => KindOf(object.value) # "Error"

\* C20: evaluation writes no env field onto a Call node, an Object bound
\* in an environment or an entry of the catalog of built-ins, and the second
\* call of let g = fn(x) { fn(y) { x + y }(1) }; g(A); g(B) yields B + 1.
C20_CallIsPure ==
  /\ store.envOf = <<>>
  /\ (IsTwice /\ ip = 4) => object = Integer(ArgumentOf(3) + 1)

(***************************************************************************)
(* Further properties of the evaluator, under SpecEval.                    *)
(***************************************************************************)
CollectionObject == evaluateExpression(expression.left, env, before).object

IndexObject == evaluateExpression(expression.index, env, before).object

\* C17: an Index expression whose collection is an Array of n items and
\* whose index is the Integer i yields item i when 0 <= i < n and Null
\* otherwise, and leaves every environment as it was.
C17_ArrayIndexing ==
  (/\ pc \in {"evaluated", "aborted"}
   /\ ExpressionKindIs("Index")
   /\ KindOf(CollectionObject) = "Array"
   /\ KindOf(IndexObject) = "Integer"
   /\ IsIntegral(IndexObject.value)) =>
    LET items == CollectionObject.value.items
        i == IndexObject.value.v[1]
    IN  /\ pc = "evaluated"
        /\ object = IF 0 <= i /\ i < Len(items) THEN items[i + 1]
                    ELSE createObject("Null", Undefined)
        /\ store.frames = before.frames

\* [1, 2][1] has yielded Integer(2)
C17_Witness ==
  /\ pc = "evaluated"
  /\ expression = IndexOf(ArrayOf(<<IntegerLeaf(1), IntegerLeaf(2)>>),
                          IntegerLeaf(1))
  /\ object = Integer(2)

\* C18: evaluateExpression throws no host exception and returns an Object,
\* a value with a kind.
C18_EvaluatorNeverAborts ==
  /\ pc # "aborted"
  /\ pc = "evaluated" => Has(object, "kind")

\* the frames from the one numbered id outwards
RECURSIVE Chain(_, _)
Chain(st, id) == IF id = 0 THEN <<>> ELSE <<id>> \o Chain(st, st.frames[id].outer)

\* the frames of the chain of env that bind name
Binders(name) ==
  {k \in 1..Len(Chain(before, env)) :
     name \in DOMAIN before.frames[Chain(before, env)[k]].bindings}

\* C19: an identifier yields the object of the innermost frame of the chain
\* that binds it, whatever that object is; when no frame binds it, the entry
\* of the catalog of built-ins; when there is none, an InvalidIdentifier Error.
C19_IdentifierResolution ==
  (pc \in {"evaluated", "aborted"} /\ ExpressionKindIs("Identifier")) =>
    LET name == expression.value.v
        innermost == CHOOSE k \in Binders(name) : \A j \in Binders(name) : k <= j
    IN  /\ pc = "evaluated"
        /\ IF Binders(name) # {}
           THEN object = before.frames[Chain(before, env)[innermost]].bindings[name]
           ELSE IF name \in BuiltInNames
           THEN object = [kind |-> "BuiltIn", fn |-> name]
           ELSE IsError(object, "InvalidIdentifier")
        /\ (name = <<"z">>) => object = Integer(0)
        /\ (name = <<"b">>) => object = createObject("Boolean", Bool(FALSE))
        /\ (name = <<"n">>) => object = createObject("Null", Undefined)

\* len, bound to a String in the environment 2, has yielded that String and
\* not the built-in
C19_Witness ==
  /\ pc = "evaluated"
  /\ expression = IdentifierLeaf(<<"l", "e", "n">>)
  /\ env = 2
  /\ object = createObject("String", Str(<<"a", "b">>))


(***************************************************************************)
(* Properties of parseFunctionParameters, under SpecParameters.            *)
(***************************************************************************)
\* the index of the first ')' from startCursor on, tokens.length if none
ClosingParenthesis ==
  LET closing == {i \in startCursor..(Len(tokens) - 1) :
                    TokenAt(tokens, i).kind = "RightParenthesis"}
  IN  IF closing = {} THEN Len(tokens)
      ELSE CHOOSE i \in closing : \A j \in closing : i <= j

\* the tokens of kind Identifier of tokens[from .. to - 1], in source order
RECURSIVE IdentifiersBetween(_, _)
IdentifiersBetween(from, to) ==
  IF from >= to THEN <<>>
  ELSE IF TokenAt(tokens, from).kind = "Identifier"
  THEN <<TokenAt(tokens, from)>> \o IdentifiersBetween(from + 1, to)
  ELSE IdentifiersBetween(from + 1, to)

ParametersParsed == pc = "parsed" /\ Has(parseResult, "parameters")

\* what both readings of the claim share: the parameters and the cursor
ParametersAndCursor ==
  /\ parseResult.parameters = IdentifiersBetween(startCursor, ClosingParenthesis)
  /\ \A i \in 1..Len(parseResult.parameters) :
       parseResult.parameters[i].kind = "Identifier"
  /\ parseResult.cursor = ClosingParenthesis

\* C21 as stated: parseFunctionParameters returns exactly the Identifier tokens
\* between its cursor and the first following ')', in source order, and the
\* index of that ')' or tokens.length, and reads no tokens[i] with
\* i >= tokens.length.
C21_FunctionParametersAsStated ==
  ParametersParsed =>
    /\ ParametersAndCursor
    /\ \A i \in reads : i < Len(tokens)

\* C21, amended: parseFunctionParameters returns exactly the Identifier tokens
\* between its cursor and the first following ')', in source order, and the
\* index of that ')' or tokens.length; it reads no index beyond tokens.length,
\* and it reads tokens[tokens.length] exactly when there is no such ')'.
C21_FunctionParameters ==
  ParametersParsed =>
    /\ ParametersAndCursor
    /\ \A i \in reads : i <= Len(tokens)
    /\ (Len(tokens) \in reads) <=> (ClosingParenthesis = Len(tokens))

\* fn(x, y) has yielded the parameters x and y and the cursor of its ')'
C21_Witness ==
  /\ ParametersParsed
  /\ tokens = Terminated(<<FunctionToken, Op("LeftParenthesis"),
                           IdentifierToken(<<"x">>), Op("Comma"),
                           IdentifierToken(<<"y">>), Op("RightParenthesis")>>)
  /\ startCursor = 2
  /\ parseResult.parameters = <<IdentifierToken(<<"x">>), IdentifierToken(<<"y">>)>>
  /\ parseResult.cursor = 5
  /\ reads = {2, 3, 4, 5}


(***************************************************************************)
(* Properties of parseExpression's loop, under SpecParse.                  *)
(***************************************************************************)
\* the iterations the infix loop has run
Iterations == Len(cursors) - 1

\* C22: a call parseExpression(tokens, c, p) that does not fault returns a
\* cursor greater than c, the very result of the call; the cursor after the
\* prefix expression is greater than c, each iteration of the infix loop
\* increases the cursor, and the loop runs at most tokens.length - c times.
C22_ParserProgress ==
  /\ pc \in {"loop", "returned"} =>
       /\ cursors[1] > startCursor
       /\ \A i \in 1..Iterations : cursors[i] < cursors[i + 1]
       /\ cursors[Len(cursors)] = parseResult.cursor
       /\ Iterations <= Len(tokens) - startCursor
  /\ pc = "returned" =>
       /\ parseResult = parseExpression(tokens, startCursor, minPrecedence)
       /\ parseResult.cursor > startCursor

\* 1 - 1 - 1 parsed from cursor 0 at the lowest precedence: the prefix
\* expression ends at 1, two iterations of the loop end at 3 and at 5, and the
\* cursor returned is 5
C22_Witness ==
  /\ pc = "returned"
  /\ tokens = Terminated(<<IntToken(<<"1">>), Op("Minus"), IntToken(<<"1">>),
                           Op("Minus"), IntToken(<<"1">>)>>)
  /\ startCursor = 0
  /\ minPrecedence = Precedence.Lowest
  /\ cursors = <<1, 3, 5>>
  /\ parseResult.cursor = 5
  /\ Shape(parseResult.expression)
       = <<"Infix", "Minus",
           <<"Infix", "Minus", <<"Value", IntNum(1)>>, <<"Value", IntNum(1)>>>>,
           <<"Value", IntNum(1)>>>>

=============================================================================
